---- MODULE Spec2Model ----
(***************************************************************************)
(* Model of pypanrestv2/Panorama.py: the TemplateStacks variable model     *)
(* (stack-level definitions, per-device assignments, validators, type      *)
(* inference, mutators) and the DeviceGroups list helpers.                  *)
(*                                                                         *)
(* Python values are encoded as records so that TLC can compare them:       *)
(*   a value        [k, s, key, value]  k in {"str","none","int","dict"}    *)
(*                  for a dict, key/value tell whether the field is absent, *)
(*                  a str or a non-str ("int"); s is the string carried     *)
(*   a type dict    [isdict, kv]        kv the (ordered) key/value pairs    *)
(*   a variable     [isdict, hasName, name, hasType, type]                  *)
(*   a container    [shape, items]      the dict holding 'entry':           *)
(*        "notdict"  not a dict            "missing" dict without 'entry'   *)
(*        "none"     entry is None         "str"     entry is ''            *)
(*        "zero"     entry is 0            "other"   entry truthy non-list  *)
(*        "list"     entry is the list items                                *)
(*        "absent"   (devices only) the device has no 'variable' key        *)
(***************************************************************************)
EXTENDS Integers, Sequences, FiniteSets, TLC

VARIABLES variable, devices, last, dgEntry, vIn, vOut, tmpl, templates, stackEntry

vars == <<variable, devices, last, dgEntry, vIn, vOut, tmpl, templates, stackEntry>>

(* ---- bounds of the model ---- *)
MaxVars == 2
MaxDevices == 2
MaxDevVars == 1
MaxDGDevices == 3
MaxUpsertVars == 2
MaxMembers == 1

(* ---- Python values ---- *)
StrV(x) == [k |-> "str", s |-> x, key |-> "absent", value |-> "absent"]
NoneV == [k |-> "none", s |-> "", key |-> "absent", value |-> "absent"]
IntV == [k |-> "int", s |-> "", key |-> "absent", value |-> "absent"]
DictV(kf, vf, x) == [k |-> "dict", s |-> x, key |-> kf, value |-> vf]

TypeOf(tag, val) == [isdict |-> TRUE, kv |-> <<[tag |-> tag, val |-> val]>>]
NoType == [isdict |-> FALSE, kv |-> <<>>]

Entry(name, tag, val) ==
    [isdict |-> TRUE, hasName |-> TRUE, name |-> name, hasType |-> TRUE, type |-> TypeOf(tag, val)]

Container(shape, items) == [shape |-> shape, items |-> items]
EmptyContainer == Container("list", <<>>)
NoVar == Container("absent", <<>>)

variable_types ==
    {"ip-netmask", "ip-range", "hostname", "ipv4-subnet", "ipv6-subnet", "pre-shared-key",
     "fqdn", "group-id", "device-priority", "device-id", "interface",
     "as-number", "qos-profile", "egress-max", "link-tag"}

(* ---- validate_variable_structure ---- *)
ItemOkAnyLen(item) ==
    /\ item.isdict /\ item.hasName /\ item.hasType
    /\ item.type.isdict /\ Len(item.type.kv) >= 1
    /\ LET type_key == item.type.kv[1].tag
           type_val == item.type.kv[1].val
       IN /\ type_key \in variable_types
          /\ IF type_key = "pre-shared-key"
             THEN /\ type_val.k = "dict"
                  /\ (type_val.key # "absent" \/ type_val.value # "absent")
                  /\ type_val.key # "int" /\ type_val.value # "int"
             ELSE type_val.k = "str"

ItemOk(item) ==
    /\ item.isdict /\ item.hasName /\ item.hasType
    /\ item.type.isdict /\ Len(item.type.kv) = 1
    /\ LET type_key == item.type.kv[1].tag
           type_val == item.type.kv[1].val
       IN /\ type_key \in variable_types
          /\ IF type_key = "pre-shared-key"
             THEN /\ type_val.k = "dict"
                  /\ (type_val.key # "absent" \/ type_val.value # "absent")
                  /\ type_val.key # "int" /\ type_val.value # "int"
             ELSE type_val.k = "str"

RECURSIVE AllItemsOk(_)
AllItemsOk(items) ==
    IF items = <<>> THEN TRUE
    ELSE IF ~ItemOk(Head(items)) THEN FALSE
    ELSE AllItemsOk(Tail(items))

validate_variable_structure(v) ==
    IF v.shape \in {"notdict", "absent"} THEN FALSE
    ELSE LET entry_list == IF v.shape \in {"missing", "none", "str"} THEN <<>> ELSE v.items
         IN IF v.shape \in {"zero", "other"} THEN FALSE
            ELSE IF entry_list = <<>> THEN TRUE
            ELSE AllItemsOk(entry_list)

(* ---- inputs of the validator ---- *)
ValSamples ==
    {StrV("a"), NoneV, IntV, DictV("absent", "str", "a"), DictV("str", "absent", "a"),
     DictV("absent", "absent", ""), DictV("int", "str", "a"), DictV("str", "int", "a")}

TagSamples == {"hostname", "pre-shared-key", "bogus"}

ItemSamples ==
    {Entry("$a", t, v) : t \in TagSamples, v \in ValSamples}
    \cup {[isdict |-> FALSE, hasName |-> FALSE, name |-> "", hasType |-> FALSE, type |-> NoType],
          [isdict |-> TRUE, hasName |-> FALSE, name |-> "", hasType |-> TRUE,
           type |-> TypeOf("hostname", StrV("a"))],
          [isdict |-> TRUE, hasName |-> TRUE, name |-> "$a", hasType |-> FALSE, type |-> NoType],
          [isdict |-> TRUE, hasName |-> TRUE, name |-> "$a", hasType |-> TRUE, type |-> NoType],
          [isdict |-> TRUE, hasName |-> TRUE, name |-> "$a", hasType |-> TRUE,
           type |-> [isdict |-> TRUE, kv |-> <<>>]],
          [isdict |-> TRUE, hasName |-> TRUE, name |-> "$a", hasType |-> TRUE,
           type |-> [isdict |-> TRUE,
                     kv |-> <<[tag |-> "hostname", val |-> StrV("a")],
                              [tag |-> "fqdn", val |-> StrV("b")]>>]]}

GoodItems == {Entry("$a", "hostname", StrV("a")), Entry("$b", "pre-shared-key", DictV("absent", "str", "a"))}

ContainerSamples ==
    {Container(s, <<>>) : s \in {"notdict", "missing", "none", "str", "zero", "other", "list"}}
    \cup {Container("list", <<i>>) : i \in ItemSamples}
    \cup {Container("list", <<g, i>>) : g \in GoodItems, i \in ItemSamples}
    \cup {Container("list", <<i, g>>) : g \in GoodItems, i \in ItemSamples}

(* ---- Templates.settings values ----
   strings are sequences of characters; a settings value is a dict (hasVsys:
   it holds 'default-vsys', whose value is vsys; extra: it holds another key
   too), a str (vsys is the string) or something else (kind "other") *)
Chars4(x) == <<"v", "s", "y", "s", x>>
SettingsDict(v, extra) == [kind |-> "dict", hasVsys |-> TRUE, vsys |-> v, extra |-> extra]
SettingsDictNoVsys(extra) == [kind |-> "dict", hasVsys |-> FALSE, vsys |-> <<>>, extra |-> extra]
SettingsStr(v) == [kind |-> "str", hasVsys |-> FALSE, vsys |-> v, extra |-> FALSE]
SettingsOther == [kind |-> "other", hasVsys |-> FALSE, vsys |-> <<>>, extra |-> FALSE]

startswith_vsys(str) == Len(str) >= 4 /\ SubSeq(str, 1, 4) = <<"v", "s", "y", "s">>

(* ---- the record of the last call: operation, arguments, outcome ----
   a1 the device or serial, a2 the variable name, tag/val the type and value,
   flag a boolean argument, blk a variable block passed in, out what the call
   returned ("None", "True", "False", a type-tag, "list") or raised *)
(* ---- TemplateStacks.entry ----
   entry[key] is an object reference: same says that it refers to the very
   object the field of that name holds (so that a mutation of the field in
   place shows in the entry too), val is the value of the object it refers to *)
NoEntry ==
    [templates |-> [same |-> FALSE, val |-> <<"absent">>],
     devices |-> [same |-> FALSE, val |-> <<[name |-> "absent"]>>],
     variable |-> [same |-> FALSE, val |-> [shape |-> "absent", items |-> <<>>]]]

(* self.entry[key] = self.<key> *)
entry_assign(e, key, value) == [e EXCEPT ![key] = [same |-> TRUE, val |-> value]]

(* the field's object was changed in place to value *)
InPlace(e, key, value) == IF e[key].same THEN [e EXCEPT ![key].val = value] ELSE e

EntryAfter(e, key, value, assigned) ==
    IF assigned THEN entry_assign(e, key, value) ELSE InPlace(e, key, value)

(* a property setter that stores the field and leaves entry[key] as it was *)
SetterFieldOnly(e, key, value) == [e EXCEPT ![key].same = FALSE]

(* a property setter on a valid value: self._<key> = value; self.entry[key] = value *)
property_setter(e, key, value) == entry_assign(e, key, value)

validate_templates_structure(t) == t.shape = "list"

Call(op, a1, a2, tag, val, flag, out) ==
    [op |-> op, a1 |-> a1, a2 |-> a2, tag |-> tag, val |-> val, flag |-> flag,
     blk |-> NoVar, out |-> out]

NoCall == Call("init", "", "", "", NoneV, FALSE, "None")

Init ==
    /\ variable = EmptyContainer
    /\ devices = <<>>
    /\ last = NoCall
    /\ dgEntry = [devShape |-> "list", devs |-> <<>>, hasRef |-> FALSE, refs |-> <<>>]
    /\ vIn = Container("notdict", <<>>)
    /\ vOut = FALSE
    /\ tmpl = [settings |-> SettingsDict(Chars4("1"), FALSE), entry |-> SettingsDict(Chars4("1"), FALSE),
               arg |-> SettingsStr(Chars4("1"))]
    /\ templates = <<>>
    /\ stackEntry = property_setter(property_setter(property_setter(NoEntry,
                         "templates", <<>>), "devices", <<>>), "variable", EmptyContainer)

(* one call of validate_variable_structure on an arbitrary input *)
ValidateCall ==
    /\ \E v \in ContainerSamples :
         /\ vIn' = v
         /\ vOut' = validate_variable_structure(v)
    /\ last' = Call("validate_variable_structure", "", "", "", NoneV, FALSE, "None")
    /\ UNCHANGED <<variable, devices, dgEntry, tmpl, templates, stackEntry>>

NextValidate == ValidateCall

SpecValidate == Init /\ [][NextValidate]_vars

(* What validate_variable_structure is said to accept: v is a dict whose
   entry is missing, empty (None, '' or []), or a list whose every item is a
   dict with @name and type, type a one-key dict with an allowed tag, the
   value a dict holding key or value (every present one a string) for
   pre-shared-key and a string for any other tag. *)
C6_Accepts(v) ==
    /\ v.shape \in {"missing", "none", "str", "list"}
    /\ v.shape = "list" =>
         \A i \in 1..Len(v.items) :
            LET it == v.items[i] IN
            /\ it.isdict /\ it.hasName /\ it.hasType
            /\ it.type.isdict
            /\ Len(it.type.kv) = 1
            /\ \E t \in variable_types :
                 /\ it.type.kv[1].tag = t
                 /\ (t = "pre-shared-key") =>
                       /\ it.type.kv[1].val.k = "dict"
                       /\ "str" \in {it.type.kv[1].val.key, it.type.kv[1].val.value}
                       /\ "int" \notin {it.type.kv[1].val.key, it.type.kv[1].val.value}
                 /\ (t # "pre-shared-key") => it.type.kv[1].val.k = "str"

(* C6: the validator returns True exactly on the containers described above,
   and False on every other input. *)
C6_ValidateExact ==
    last.op = "validate_variable_structure" => (vOut <=> C6_Accepts(vIn))

C6_Witness ==
    /\ last.op = "validate_variable_structure"
    /\ vOut
    /\ vIn.shape = "list" /\ Len(vIn.items) = 2
    /\ vIn.items[2].type.kv[1].tag = "pre-shared-key"

(* ====================== TemplateStacks ====================== *)

(* a device entry of devices.entry; var is its 'variable' block *)
Device(name, var) == [isdict |-> TRUE, hasName |-> TRUE, name |-> name, var |-> var]

RemoveAt(seq, i) == SubSeq(seq, 1, i - 1) \o SubSeq(seq, i + 1, Len(seq))

(* index of the first entry whose '@name' equals name, 0 when there is none *)
FirstNamed(seq, name) ==
    LET S == {i \in 1..Len(seq) : seq[i].isdict /\ seq[i].hasName /\ seq[i].name = name}
    IN IF S = {} THEN 0 ELSE CHOOSE i \in S : \A j \in S : i <= j

HasDevice(devs, name) == FirstNamed(devs, name) # 0

(* ---- validate_devices_structure (the devices setter's check) ---- *)
RECURSIVE AllDevicesOk(_)
AllDevicesOk(items) ==
    IF items = <<>> THEN TRUE
    ELSE LET item == Head(items) IN
         IF ~item.isdict \/ ~item.hasName THEN FALSE
         ELSE IF item.var.shape = "absent" THEN AllDevicesOk(Tail(items))
         ELSE IF item.var.shape = "notdict" THEN FALSE
         ELSE LET truthy == \/ item.var.shape = "other"
                            \/ (item.var.shape = "list" /\ item.var.items # <<>>)
              IN IF truthy /\ ~validate_variable_structure(item.var) THEN FALSE
                 ELSE AllDevicesOk(Tail(items))

validate_devices_structure(d) ==
    IF d.shape \in {"notdict", "missing"} THEN FALSE
    ELSE IF d.shape # "list" THEN FALSE
    ELSE AllDevicesOk(d.items)

(* ---- _infer_variable_type: a type-tag, "None", or "TypeError" ---- *)
RECURSIVE ScanEntries(_, _)
ScanEntries(items, variable_name) ==
    IF items = <<>> THEN "None"
    ELSE LET var == Head(items) IN
         IF /\ var.hasName /\ var.name = variable_name
            /\ var.hasType /\ var.type.isdict /\ var.type.kv # <<>>
         THEN var.type.kv[1].tag
         ELSE ScanEntries(Tail(items), variable_name)

RECURSIVE ScanDevices(_, _)
ScanDevices(devs, variable_name) ==
    IF devs = <<>> THEN "None"
    ELSE LET dev == Head(devs) IN
         IF ~dev.isdict \/ dev.var.shape \in {"absent", "notdict"}
         THEN ScanDevices(Tail(devs), variable_name)
         ELSE IF dev.var.shape \in {"none", "zero", "other"} THEN "TypeError"
         ELSE LET r == IF dev.var.shape = "list"
                       THEN ScanEntries(dev.var.items, variable_name) ELSE "None"
              IN IF r # "None" THEN r ELSE ScanDevices(Tail(devs), variable_name)

_infer_variable_type(var, devs, variable_name) ==
    LET stack == IF var.shape = "none" THEN "TypeError"
                 ELSE IF var.shape = "list" THEN ScanEntries(var.items, variable_name)
                 ELSE "None"
    IN IF stack # "None" THEN stack ELSE ScanDevices(devs, variable_name)

(* ---- _ensure_device_variables_container ---- *)
_ensure_device_variables_container(device_entry) ==
    IF device_entry.var.shape \in {"absent", "notdict"}
    THEN [device_entry EXCEPT !.var = EmptyContainer]
    ELSE IF device_entry.var.shape # "list"
    THEN [device_entry EXCEPT !.var = EmptyContainer]
    ELSE device_entry

(* a plain string given for a pre-shared-key is wrapped as {'value': <str>} *)
Normalize(variable_type, variable_value) ==
    IF variable_type = "pre-shared-key" /\ variable_value.k = "str"
    THEN DictV("absent", "str", variable_value.s)
    ELSE variable_value

(* ---- update_device_variable: the new devices list and the outcome ---- *)
AppendAlways(devs, device_name, variable_name, variable_type, variable_value) ==
    LET i == FirstNamed(devs, device_name) IN
    IF variable_type \notin variable_types \/ i = 0 THEN [devs |-> devs, out |-> "None"]
    ELSE LET dev == _ensure_device_variables_container(devs[i])
             normalized_value == Normalize(variable_type, variable_value)
         IN IF variable_type = "pre-shared-key" /\ normalized_value.k # "dict"
            THEN [devs |-> [devs EXCEPT ![i] = dev], out |-> "ValueError"]
            ELSE [devs |-> [devs EXCEPT ![i] =
                               [dev EXCEPT !.var.items =
                                   Append(@, Entry(variable_name, variable_type, normalized_value))]],
                  out |-> "None"]

update_device_variable(devs, device_name, variable_name, variable_type, variable_value) ==
    LET i == FirstNamed(devs, device_name) IN
    IF variable_type \notin variable_types \/ i = 0 THEN [devs |-> devs, out |-> "None"]
    ELSE LET dev == _ensure_device_variables_container(devs[i])
             normalized_value == Normalize(variable_type, variable_value)
             j == FirstNamed(dev.var.items, variable_name)
             payload == TypeOf(variable_type, normalized_value)
         IN IF variable_type = "pre-shared-key" /\ normalized_value.k # "dict"
            THEN [devs |-> [devs EXCEPT ![i] = dev], out |-> "ValueError"]
            ELSE IF j # 0
            THEN [devs |-> [devs EXCEPT ![i] = [dev EXCEPT !.var.items[j].type = payload]],
                  out |-> "None"]
            ELSE [devs |-> [devs EXCEPT ![i] =
                               [dev EXCEPT !.var.items =
                                   Append(@, Entry(variable_name, variable_type, normalized_value))]],
                  out |-> "None"]

(* ---- add_device: the new devices list and the return value ---- *)
AddDeviceOnce(devs, name, hasVariables, variables) ==
    IF hasVariables /\ ~validate_variable_structure(variables)
    THEN [devs |-> devs, out |-> "False"]
    ELSE IF HasDevice(devs, name) THEN [devs |-> devs, out |-> "True"]
    ELSE [devs |-> Append(devs, Device(name, IF hasVariables THEN variables ELSE NoVar)),
          out |-> "True"]

add_device(devs, name, hasVariables, variables) ==
    IF hasVariables
    THEN IF ~validate_variable_structure(variables)
         THEN [devs |-> devs, out |-> "False"]
         ELSE [devs |-> Append(devs, Device(name, variables)), out |-> "True"]
    ELSE [devs |-> Append(devs, Device(name, NoVar)), out |-> "True"]

(* ---- set_device_variable_value ---- *)
SetAlwaysCreates(var, devs, device_serial, variable_name, value, create_device_if_missing) ==
    LET var_type_key == _infer_variable_type(var, devs, variable_name) IN
    IF var_type_key = "TypeError" THEN [devs |-> devs, out |-> "TypeError"]
    ELSE IF var_type_key = "None" THEN [devs |-> devs, out |-> "ValueError"]
    ELSE LET devs1 == IF ~HasDevice(devs, device_serial)
                      THEN add_device(devs, device_serial, FALSE, NoVar).devs ELSE devs
         IN update_device_variable(devs1, device_serial, variable_name, var_type_key,
                                   Normalize(var_type_key, value))

set_device_variable_value(var, devs, device_serial, variable_name, value, create_device_if_missing) ==
    LET var_type_key == _infer_variable_type(var, devs, variable_name) IN
    IF var_type_key = "TypeError" THEN [devs |-> devs, out |-> "TypeError"]
    ELSE IF var_type_key = "None" THEN [devs |-> devs, out |-> "ValueError"]
    ELSE LET device_exists == HasDevice(devs, device_serial)
             devs1 == IF ~device_exists /\ create_device_if_missing
                      THEN add_device(devs, device_serial, FALSE, NoVar).devs ELSE devs
             prepared_value == Normalize(var_type_key, value)
         IN update_device_variable(devs1, device_serial, variable_name, var_type_key, prepared_value)

(* ---- remove_device ---- *)
RECURSIVE DropNamed(_, _)
DropNamed(devs, name) ==
    IF devs = <<>> THEN <<>>
    ELSE IF Head(devs).name = name THEN DropNamed(Tail(devs), name)
    ELSE <<Head(devs)>> \o DropNamed(Tail(devs), name)

RemoveAllNamed(devs, name) ==
    IF FirstNamed(devs, name) = 0 THEN [devs |-> devs, out |-> "False"]
    ELSE [devs |-> DropNamed(devs, name), out |-> "True"]

remove_device(devs, name) ==
    LET i == FirstNamed(devs, name) IN
    IF i = 0 THEN [devs |-> devs, out |-> "False"]
    ELSE [devs |-> RemoveAt(devs, i), out |-> "True"]

(* ---- remove_device_variable ---- *)
remove_device_variable(devs, device_name, variable_name) ==
    LET i == FirstNamed(devs, device_name) IN
    IF i = 0 THEN [devs |-> devs, out |-> "False"]
    ELSE IF devs[i].var.shape \in {"absent", "missing"} THEN [devs |-> devs, out |-> "False"]
    ELSE IF devs[i].var.shape \in {"none", "zero", "other", "notdict"}
    THEN [devs |-> devs, out |-> "TypeError"]
    ELSE IF devs[i].var.shape = "str" THEN [devs |-> devs, out |-> "False"]
    ELSE LET j == FirstNamed(devs[i].var.items, variable_name) IN
         IF j = 0 THEN [devs |-> devs, out |-> "False"]
         ELSE [devs |-> [devs EXCEPT ![i].var.items = RemoveAt(@, j)], out |-> "True"]

(* ---- update_variable: the new stack-level container and the outcome ---- *)
update_variable(var, name, variable_type, variable_value) ==
    IF variable_type \notin variable_types THEN [var |-> var, out |-> "None"]
    ELSE IF var.shape = "missing" THEN [var |-> var, out |-> "KeyError"]
    ELSE IF var.shape # "list" THEN [var |-> var, out |-> "AttributeError"]
    ELSE [var |-> Container("list", Append(var.items, Entry(name, variable_type, variable_value))),
          out |-> "None"]

(* ---- get_variables_from_device.extract_variables ---- *)
RECURSIVE ExtractEntries(_)
ExtractEntries(items) ==
    IF items = <<>> THEN <<>>
    ELSE LET var == Head(items) IN
         IF ~var.isdict \/ ~var.hasType \/ ~var.hasName THEN ExtractEntries(Tail(items))
         ELSE <<Entry(var.name, var.type.kv[1].tag, NoneV)>> \o ExtractEntries(Tail(items))

extract_variables(devs) ==
    LET device == devs[1]
        entry_list == IF device.isdict /\ device.var.shape = "list" THEN device.var.items ELSE <<>>
    IN Container("list", ExtractEntries(entry_list))

(* ---- inputs of the TemplateStacks operations ---- *)
Names == {"$a", "$b"}
Serials == {"d1", "d2"}

(* (name, type, value) of update_variable and update_device_variable: a string
   value, a string given for a pre-shared-key, a non-string value, a type
   outside variable_types *)
VarArgs ==
    {<<"$a", "hostname", StrV("a")>>, <<"$a", "pre-shared-key", StrV("a")>>,
     <<"$b", "hostname", IntV>>, <<"$b", "bogus", StrV("a")>>}

DevVarArgs ==
    {<<"$a", "hostname", StrV("a")>>, <<"$a", "pre-shared-key", StrV("a")>>,
     <<"$b", "pre-shared-key", IntV>>, <<"$b", "bogus", StrV("a")>>}

(* (name, value) of set_device_variable_value *)
SetArgs == {<<"$a", StrV("a")>>, <<"$b", StrV("a")>>, <<"$a", IntV>>}

(* (name, variables) of add_device called with a variable block *)
AddArgs ==
    {<<"d1", Container("none", <<>>)>>,
     <<"d2", Container("list", <<Entry("$a", "hostname", StrV("a"))>>)>>,
     <<"d1", Container("zero", <<>>)>>,
     <<"d2", Container("list", <<Entry("$a", "hostname", IntV)>>)>>}

(* values assigned to the variable property *)
VariableSetterInputs ==
    {Container("notdict", <<>>), Container("missing", <<>>), Container("none", <<>>),
     Container("list", <<>>),
     Container("list", <<Entry("$a", "hostname", StrV("a"))>>),
     Container("list", <<Entry("$b", "bogus", StrV("a"))>>)}

(* values assigned to the devices property *)
DevicesSetterInputs ==
    {Container("missing", <<>>), Container("list", <<>>),
     Container("list", <<Device("d1", Container("none", <<>>))>>),
     Container("list", <<Device("d1", Container("other", <<>>))>>),
     Container("list", <<[isdict |-> TRUE, hasName |-> FALSE, name |-> "", var |-> NoVar]>>)}

(* what refresh() may load into devices: nothing, or a device of the remote stack *)
RefreshDevices ==
    {<<>>, <<Device("d2", Container("list", <<Entry("$a", "hostname", StrV("a"))>>))>>}

WithinBounds(var, devs) ==
    /\ Len(var.items) <= MaxVars
    /\ Len(devs) <= MaxDevices
    /\ \A i \in 1..Len(devs) : Len(devs[i].var.items) <= MaxDevVars

(* ---- the operations as actions ---- *)
UpdateVariable ==
    \E a \in VarArgs :
       LET name == a[1]
           t == a[2]
           v == a[3] IN
       \E r \in {update_variable(variable, name, t, v)} :
          /\ WithinBounds(r.var, devices)
          /\ variable' = r.var
          /\ last' = Call("update_variable", "", name, t, v, FALSE, r.out)
          /\ stackEntry' = EntryAfter(stackEntry, "variable", r.var,
                                     t \in variable_types /\ r.out = "None")
          /\ UNCHANGED <<devices, dgEntry, vIn, vOut, tmpl, templates>>

AddDevice ==
    \E name \in Serials :
       \E r \in {add_device(devices, name, FALSE, NoVar)} :
          /\ WithinBounds(variable, r.devs)
          /\ devices' = r.devs
          /\ last' = Call("add_device", name, "", "", NoneV, FALSE, r.out)
          /\ stackEntry' = EntryAfter(stackEntry, "devices", r.devs, r.out = "True")
          /\ UNCHANGED <<variable, dgEntry, vIn, vOut, tmpl, templates>>

AddDeviceWithVariables ==
    \E a \in AddArgs :
       LET name == a[1]
           vs == a[2] IN
       \E r \in {add_device(devices, name, TRUE, vs)} :
          /\ WithinBounds(variable, r.devs)
          /\ devices' = r.devs
          /\ last' = [Call("add_device", name, "", "", NoneV, TRUE, r.out) EXCEPT !.blk = vs]
          /\ stackEntry' = EntryAfter(stackEntry, "devices", r.devs, r.out = "True")
          /\ UNCHANGED <<variable, dgEntry, vIn, vOut, tmpl, templates>>

RemoveDevice ==
    \E name \in Serials :
       \E r \in {remove_device(devices, name)} :
          /\ devices' = r.devs
          /\ last' = Call("remove_device", name, "", "", NoneV, FALSE, r.out)
          /\ stackEntry' = EntryAfter(stackEntry, "devices", r.devs, r.out = "True")
          /\ UNCHANGED <<variable, dgEntry, vIn, vOut, tmpl, templates>>

SetDeviceVariableValue ==
    \E serial \in Serials, a \in SetArgs, create \in BOOLEAN :
       LET name == a[1]
           v == a[2] IN
       \E r \in {set_device_variable_value(variable, devices, serial, name, v, create)} :
          /\ WithinBounds(variable, r.devs)
          /\ devices' = r.devs
          /\ last' = Call("set_device_variable_value", serial, name, "", v, create, r.out)
          /\ stackEntry' = EntryAfter(stackEntry, "devices", r.devs,
                                     \/ Len(r.devs) > Len(devices)
                                     \/ (r.out = "None" /\ HasDevice(devices, serial)))
          /\ UNCHANGED <<variable, dgEntry, vIn, vOut, tmpl, templates>>

UpdateDeviceVariable ==
    \E serial \in Serials, a \in DevVarArgs :
       LET name == a[1]
           t == a[2]
           v == a[3] IN
       \E r \in {update_device_variable(devices, serial, name, t, v)} :
          /\ WithinBounds(variable, r.devs)
          /\ devices' = r.devs
          /\ last' = Call("update_device_variable", serial, name, t, v, FALSE, r.out)
          /\ stackEntry' = EntryAfter(stackEntry, "devices", r.devs,
                                     /\ t \in variable_types /\ HasDevice(devices, serial)
                                     /\ r.out = "None")
          /\ UNCHANGED <<variable, dgEntry, vIn, vOut, tmpl, templates>>

RemoveDeviceVariable ==
    \E serial \in Serials, name \in Names :
       \E r \in {remove_device_variable(devices, serial, name)} :
          /\ devices' = r.devs
          /\ last' = Call("remove_device_variable", serial, name, "", NoneV, FALSE, r.out)
          /\ stackEntry' = EntryAfter(stackEntry, "devices", r.devs, r.out = "True")
          /\ UNCHANGED <<variable, dgEntry, vIn, vOut, tmpl, templates>>

(* get_variables_from_device: with no device it calls refresh() first *)
GetVariablesFromDevice ==
    \E fetched \in (IF devices # <<>> THEN {devices} ELSE RefreshDevices) :
       /\ devices' = fetched
       /\ variable' = IF fetched # <<>> THEN extract_variables(fetched) ELSE variable
       /\ WithinBounds(variable', devices')
       /\ last' = Call("get_variables_from_device", "", "", "", NoneV, FALSE, "list")
       /\ stackEntry' = InPlace(IF devices = <<>>
                               THEN property_setter(stackEntry, "devices", fetched)
                               ELSE stackEntry, "variable", variable')
       /\ UNCHANGED <<dgEntry, vIn, vOut, tmpl, templates>>

VariableSetter ==
    \E value \in VariableSetterInputs :
       \E ok \in {validate_variable_structure(value)} :
          /\ variable' = IF ok THEN value ELSE variable
          /\ last' = [Call("variable.setter", "", "", "", NoneV, FALSE,
                           IF ok THEN "None" ELSE "ValueError")
                         EXCEPT !.blk = value]
          /\ stackEntry' = IF ok
                          THEN property_setter(stackEntry, "variable", value) ELSE stackEntry
          /\ UNCHANGED <<devices, dgEntry, vIn, vOut, tmpl, templates>>

DevicesSetter ==
    \E value \in DevicesSetterInputs :
       \E ok \in {validate_devices_structure(value)} :
          /\ devices' = IF ok THEN value.items ELSE devices
          /\ last' = [Call("devices.setter", "", value.shape, "", NoneV, FALSE,
                           IF ok THEN "None" ELSE "ValueError")
                         EXCEPT !.blk = value]
          /\ stackEntry' = IF ok
                          THEN property_setter(stackEntry, "devices", value.items) ELSE stackEntry
          /\ UNCHANGED <<variable, dgEntry, vIn, vOut, tmpl, templates>>

InferVariableType ==
    \E name \in Names :
       /\ last' = Call("_infer_variable_type", "", name, "", NoneV, FALSE,
                       _infer_variable_type(variable, devices, name))
       /\ UNCHANGED <<variable, devices, dgEntry, vIn, vOut, tmpl, templates, stackEntry>>

Next ==
    \/ UpdateVariable
    \/ AddDevice
    \/ AddDeviceWithVariables
    \/ RemoveDevice
    \/ SetDeviceVariableValue
    \/ UpdateDeviceVariable
    \/ RemoveDeviceVariable
    \/ GetVariablesFromDevice
    \/ VariableSetter
    \/ DevicesSetter
    \/ InferVariableType

Spec == Init /\ [][Next]_vars

(* the operations C1 names, from the empty template stack *)
NextC1 ==
    \/ UpdateVariable
    \/ AddDevice
    \/ RemoveDevice
    \/ RemoveDeviceVariable
    \/ SetDeviceVariableValue

SpecC1 == Init /\ [][NextC1]_vars

(* the mutators C2 names *)
NextMutators ==
    \/ UpdateVariable
    \/ AddDevice
    \/ AddDeviceWithVariables
    \/ SetDeviceVariableValue
    \/ UpdateDeviceVariable
    \/ RemoveDeviceVariable
    \/ GetVariablesFromDevice

SpecMutators == Init /\ [][NextMutators]_vars

(* ---- what the claims speak of, stated on the data ---- *)
TagOf(e) == e.type.kv[1].tag

StackDefs == IF variable.shape = "list" THEN variable.items ELSE <<>>

DevVars(d) == IF d.var.shape = "list" THEN d.var.items ELSE <<>>

Carries(e, name) == e.hasName /\ e.name = name /\ e.hasType /\ e.type.isdict /\ e.type.kv # <<>>

StackCarries(name) == \E k \in 1..Len(StackDefs) : Carries(StackDefs[k], name)

DeviceCarries(name) ==
    \E i \in 1..Len(devices) : \E j \in 1..Len(DevVars(devices[i])) :
       Carries(DevVars(devices[i])[j], name)

(* C1: every per-device variable entry has the type-tag of any stack-level
   definition of the same @name, in every state reached from the empty stack
   by update_variable, add_device, remove_device, remove_device_variable and
   set_device_variable_value. *)
C1_DeviceTagMatchesStack ==
    \A i \in 1..Len(devices) : \A j \in 1..Len(DevVars(devices[i])) :
       \A k \in 1..Len(StackDefs) :
          DevVars(devices[i])[j].name = StackDefs[k].name
             => TagOf(DevVars(devices[i])[j]) = TagOf(StackDefs[k])

(* C2: after any sequence of mutators the stack-level container and every
   device's variable block hold only well-formed entries (one allowed type-tag,
   key/value strings in a dict for pre-shared-key, a plain string otherwise). *)
C2_AllEntriesValid ==
    /\ C6_Accepts(variable)
    /\ \A i \in 1..Len(devices) :
          devices[i].var.shape # "absent" => C6_Accepts(devices[i].var)

(* C3: set_device_variable_value raises ValueError whenever neither a
   stack-level definition nor a per-device entry carries the variable name with
   a non-empty type, and then adds no device and changes no variable. *)
C3_UnknownNameRaisesValueError ==
    [][(/\ last'.op = "set_device_variable_value"
        /\ ~StackCarries(last'.a2) /\ ~DeviceCarries(last'.a2))
         => (last'.out = "ValueError" /\ devices' = devices /\ variable' = variable)]_vars

(* C4: when set_device_variable_value returns, the device named serial exists
   exactly when it existed before or create_device_if_missing was True, at most
   one device entry was added (at the end), and with create_device_if_missing
   False and no such device the devices list is unchanged. *)
C4_DeviceCreatedOnlyWhenAllowed ==
    [][(last'.op = "set_device_variable_value" /\ last'.out = "None")
         => /\ HasDevice(devices', last'.a1) <=> (HasDevice(devices, last'.a1) \/ last'.flag)
            /\ Len(devices') \in {Len(devices), Len(devices) + 1}
            /\ \A i \in 1..Len(devices) : devices'[i].name = devices[i].name
            /\ Len(devices') = Len(devices) + 1 => devices'[Len(devices')].name = last'.a1
            /\ (~last'.flag /\ ~HasDevice(devices, last'.a1)) => devices' = devices]_vars

C4_Witness ==
    /\ last.op = "set_device_variable_value" /\ last.out = "None"
    /\ ~last.flag
    /\ ~HasDevice(devices, last.a1)
    /\ HasDevice(devices, "d2")
    /\ StackCarries(last.a2)

(* C5: _infer_variable_type returns the tag of the first stack-level definition
   of the name when there is one, otherwise the tag of the first matching
   per-device entry in device order, and None exactly when nothing matches. *)
FirstStackTag(name) ==
    TagOf(StackDefs[CHOOSE k \in 1..Len(StackDefs) :
                       /\ Carries(StackDefs[k], name)
                       /\ \A m \in 1..(k - 1) : ~Carries(StackDefs[m], name)])

FirstDeviceTag(name) ==
    LET i == CHOOSE i \in 1..Len(devices) :
                /\ \E j \in 1..Len(DevVars(devices[i])) : Carries(DevVars(devices[i])[j], name)
                /\ \A m \in 1..(i - 1) : \A j \in 1..Len(DevVars(devices[m])) :
                      ~Carries(DevVars(devices[m])[j], name)
        j == CHOOSE j \in 1..Len(DevVars(devices[i])) :
                /\ Carries(DevVars(devices[i])[j], name)
                /\ \A m \in 1..(j - 1) : ~Carries(DevVars(devices[i])[m], name)
    IN TagOf(DevVars(devices[i])[j])

C5_InferOrder ==
    last.op = "_infer_variable_type" =>
       last.out = IF StackCarries(last.a2) THEN FirstStackTag(last.a2)
                  ELSE IF DeviceCarries(last.a2) THEN FirstDeviceTag(last.a2)
                  ELSE "None"

(* C8: every add_device call that returns True appends exactly one entry named
   name, also when that name is already present; a call whose variables fail
   validate_variable_structure returns False and appends nothing. *)
C8_AddDeviceAppends ==
    [][last'.op = "add_device"
         => /\ last'.out \in {"True", "False"}
            /\ last'.out = "False" <=> (last'.flag /\ ~C6_Accepts(last'.blk))
            /\ last'.out = "True" =>
                  /\ Len(devices') = Len(devices) + 1
                  /\ SubSeq(devices', 1, Len(devices)) = devices
                  /\ devices'[Len(devices')].name = last'.a1
            /\ last'.out = "False" => devices' = devices]_vars

C8_Witness ==
    /\ last.op = "add_device" /\ last.out = "True"
    /\ Len(devices) = 2
    /\ devices[1].name = devices[2].name

(* C9: no mutator fails with a KeyError, TypeError or AttributeError because of
   the shape of a container that the setters and validators accepted. *)
C9_NoShapeErrors ==
    last.op \in {"add_device", "remove_device", "update_variable",
                 "update_device_variable", "remove_device_variable"}
       => last.out \notin {"KeyError", "TypeError", "AttributeError"}

(* ====================== DeviceGroups ====================== *)
(* dgEntry is self.entry: devShape the shape of entry['devices'] ("list":
   entry['devices']['entry'] is the list devs; "nodevices": no 'devices' key;
   "noentry": no 'entry' key under it; "notlist": 'entry' is not a list),
   hasRef whether 'reference-templates' is present, refs its member list. *)

DGSerials == {"", "s1", "s2"}

(* template_name arguments: a non-string, the empty string, names *)
TemplateNames ==
    {[isstr |-> FALSE, s |-> ""], [isstr |-> TRUE, s |-> ""], [isstr |-> TRUE, s |-> "t1"],
     [isstr |-> TRUE, s |-> "t2"], [isstr |-> TRUE, s |-> "t3"]}

InSeq(x, seq) == \E i \in 1..Len(seq) : seq[i] = x

(* ---- DeviceGroups.add_device ---- *)
DG_add_device(entry, serial) ==
    IF serial = "" THEN [entry |-> entry, out |-> "ValueError"]
    ELSE IF entry.devShape # "list" THEN [entry |-> entry, out |-> "None"]
    ELSE [entry |-> [entry EXCEPT !.devs = Append(@, serial)], out |-> "None"]

(* ---- DeviceGroups.add_reference_template ---- *)
AddReferenceAlways(entry, template_name) ==
    IF ~template_name.isstr THEN [entry |-> entry, out |-> "TypeError"]
    ELSE IF template_name.s = "" THEN [entry |-> entry, out |-> "ValueError"]
    ELSE [entry |-> [entry EXCEPT !.hasRef = TRUE, !.refs = Append(@, template_name.s)],
          out |-> "None"]

add_reference_template(entry, template_name) ==
    IF ~template_name.isstr THEN [entry |-> entry, out |-> "TypeError"]
    ELSE IF template_name.s = "" THEN [entry |-> entry, out |-> "ValueError"]
    ELSE LET e1 == IF ~entry.hasRef THEN [entry EXCEPT !.hasRef = TRUE, !.refs = <<>>] ELSE entry
         IN IF ~InSeq(template_name.s, e1.refs)
            THEN [entry |-> [e1 EXCEPT !.refs = Append(@, template_name.s)], out |-> "None"]
            ELSE [entry |-> e1, out |-> "None"]

DGAddDevice ==
    \E serial \in DGSerials :
       \E r \in {DG_add_device(dgEntry, serial)} :
          /\ Len(r.entry.devs) <= MaxDGDevices
          /\ dgEntry' = r.entry
          /\ last' = Call("DeviceGroups.add_device", serial, "", "", NoneV, FALSE, r.out)
          /\ UNCHANGED <<variable, devices, vIn, vOut, tmpl, templates, stackEntry>>

DGAddReferenceTemplate ==
    \E t \in TemplateNames :
       \E r \in {add_reference_template(dgEntry, t)} :
          /\ dgEntry' = r.entry
          /\ last' = Call("add_reference_template", "", t.s, "", NoneV, t.isstr, r.out)
          /\ UNCHANGED <<variable, devices, vIn, vOut, tmpl, templates, stackEntry>>

(* refresh() replaces entry['devices'] by what the appliance returned: a list
   of devices, no devices block, a block without entries, or (a single child
   parsed from XML) an entry that is not a list *)
DGRefresh ==
    \E shape \in {"list", "nodevices", "noentry", "notlist"}, fetched \in {<<>>, <<"s1">>} :
       /\ dgEntry' = [dgEntry EXCEPT !.devShape = shape,
                                     !.devs = IF shape = "list" THEN fetched ELSE <<>>]
       /\ last' = Call("DeviceGroups.refresh", "", "", "", NoneV, FALSE, "None")
       /\ UNCHANGED <<variable, devices, vIn, vOut, tmpl, templates, stackEntry>>

(* ---- DeviceGroups.getParentDG ----
   what the HTTP call and the XML parse give: http is "request_exception"
   (session.get raises), "http_error" (raise_for_status raises), "unparsable"
   (xmltodict.parse raises) or "parsed"; of a parsed document, response is
   "missing" (no 'response' key), "none" (an empty element) or the '@status'
   of the response dict ("success", "error", "absent"); result is "missing",
   "none" (an empty <result/>) or "dict"; hasParent tells whether the result
   dict holds 'parent-dg' and parent is its value (NoneV for an empty element) *)
Reply(http, response, result, hasParent, parent) ==
    [http |-> http, response |-> response, result |-> result,
     hasParent |-> hasParent, parent |-> parent]

Replies ==
    {Reply(h, "missing", "missing", FALSE, NoneV) :
        h \in {"request_exception", "http_error", "unparsable"}}
    \cup {Reply("parsed", r, "missing", FALSE, NoneV) : r \in {"missing", "none", "error", "absent"}}
    \cup {Reply("parsed", "error", "dict", TRUE, StrV("dg-parent"))}
    \cup {Reply("parsed", "success", r, FALSE, NoneV) : r \in {"missing", "none", "dict"}}
    \cup {Reply("parsed", "success", "dict", TRUE, p) : p \in {NoneV, StrV("dg-parent")}}

getParentDG(reply) ==
    IF reply.http \in {"request_exception", "http_error"} THEN "None"
    ELSE IF reply.http = "unparsable" THEN "None"
    ELSE IF reply.response = "none" THEN "None"
    ELSE IF reply.response = "success"
    THEN IF reply.result = "none" THEN "None"
         ELSE LET parent_dg == IF reply.result = "dict" /\ reply.hasParent
                               THEN reply.parent ELSE NoneV
              IN IF parent_dg.k # "none" THEN parent_dg.s ELSE "shared"
    ELSE "None"

GetParentDG ==
    \E reply \in Replies :
       /\ last' = [Call("getParentDG", reply.http, reply.response, reply.result, reply.parent,
                        reply.hasParent, getParentDG(reply))
                     EXCEPT !.blk = NoVar]
       /\ UNCHANGED <<variable, devices, dgEntry, vIn, vOut, tmpl, templates, stackEntry>>

NextDG ==
    \/ DGAddDevice
    \/ DGAddReferenceTemplate
    \/ DGRefresh
    \/ GetParentDG

SpecDG == Init /\ [][NextDG]_vars

(* C7: add_reference_template with a name already in the member list leaves the
   list unchanged, so starting without reference templates the member list
   never holds a name twice. *)
C7_ReferenceTemplatesIdempotent ==
    [][/\ (/\ last'.op = "add_reference_template" /\ last'.flag
           /\ last'.a2 # "" /\ InSeq(last'.a2, dgEntry.refs))
            => dgEntry'.refs = dgEntry.refs
       /\ (last'.op = "add_reference_template" /\ last'.out = "None")
            => InSeq(last'.a2, dgEntry'.refs)
       /\ \A i, j \in 1..Len(dgEntry'.refs) :
             dgEntry'.refs[i] = dgEntry'.refs[j] => i = j]_vars

C7_Witness ==
    /\ last.op = "add_reference_template" /\ last.out = "None"
    /\ Len(dgEntry.refs) = 2
    /\ last.a2 = dgEntry.refs[1]

(* C10: DeviceGroups.add_device raises ValueError for an empty serial, raises
   AttributeError when entry['devices']['entry'] is missing or not a list,
   leaves the list unchanged in both cases, and otherwise appends exactly one
   {'@name': serial}. *)
C10_AddDeviceErrors ==
    [][last'.op = "DeviceGroups.add_device"
         => IF last'.a1 = "" THEN last'.out = "ValueError" /\ dgEntry' = dgEntry
            ELSE IF dgEntry.devShape # "list"
            THEN last'.out = "AttributeError" /\ dgEntry' = dgEntry
            ELSE last'.out = "None" /\ dgEntry'.devs = Append(dgEntry.devs, last'.a1)]_vars

(* ====================== Templates ====================== *)
(* tmpl is the Templates object: settings is self._settings, entry is
   self.entry['settings'], arg the value last assigned to the property *)

VsysDigits == {"1", "2", "3", "4", "5"}

SettingsInputs ==
    {SettingsStr(Chars4(x)) : x \in VsysDigits}
    \cup {SettingsStr(<<>>), SettingsStr(<<"v", "s">>), SettingsStr(<<"f", "o", "o", "1">>),
          SettingsStr(<<"v", "s", "y">>), SettingsStr(<<"V", "S", "Y", "S", "1">>),
          SettingsStr(<<"1", "v", "s", "y", "s">>), SettingsOther}
    \cup {SettingsDict(Chars4(x), e) : x \in VsysDigits, e \in BOOLEAN}
    \cup {SettingsDict(<<"f", "o", "o">>, FALSE)}
    \cup {SettingsDictNoVsys(e) : e \in BOOLEAN}

(* ---- Templates.settings setter ---- *)
settings_setter(t, value) ==
    IF value.kind = "dict"
    THEN IF value.hasVsys
         THEN [tmpl |-> [t EXCEPT !.settings = value, !.entry = value], out |-> "None"]
         ELSE [tmpl |-> t, out |-> "None"]
    ELSE IF value.kind = "str"
    THEN IF ~startswith_vsys(value.vsys)
         THEN [tmpl |-> t, out |-> "ValueError"]
         ELSE [tmpl |-> [t EXCEPT !.settings = SettingsDict(value.vsys, FALSE),
                                  !.entry = SettingsDict(value.vsys, FALSE)],
               out |-> "None"]
    ELSE [tmpl |-> t, out |-> "TypeError"]

TemplatesSettings ==
    \E value \in SettingsInputs :
       \E r \in {settings_setter(tmpl, value)} :
          /\ tmpl' = [r.tmpl EXCEPT !.arg = value]
          /\ last' = Call("Templates.settings", "", "", "", NoneV, FALSE, r.out)
          /\ UNCHANGED <<variable, devices, dgEntry, vIn, vOut, templates, stackEntry>>

NextTemplates == TemplatesSettings

SpecTemplates == Init /\ [][NextTemplates]_vars

(* C11: assigning settings a value that is neither a dict holding
   'default-vsys' nor a string starting with 'vsys' raises ValueError or
   TypeError; after an assignment that does not raise, settings is a dict whose
   'default-vsys' is the one assigned and entry['settings'] equals settings. *)
C11_SettingsRejectsInvalid ==
    last.op = "Templates.settings" =>
       /\ ~(\/ (tmpl.arg.kind = "dict" /\ tmpl.arg.hasVsys)
            \/ (tmpl.arg.kind = "str" /\ startswith_vsys(tmpl.arg.vsys)))
            => last.out \in {"ValueError", "TypeError"}
       /\ last.out = "None" =>
             /\ tmpl.settings.kind = "dict" /\ tmpl.settings.hasVsys
             /\ tmpl.settings.vsys = tmpl.arg.vsys
             /\ tmpl.entry = tmpl.settings

(* C12: getParentDG never lets an exception out: it returns None for a request
   exception, an HTTP error status, an unparsable body and a response whose
   status is not 'success'; for a 'success' response it returns the parent-dg
   value when there is one and 'shared' when there is none. *)
C12_ParentDGOutcome ==
    last.op = "getParentDG" =>
       /\ last.out \notin {"ValueError", "TypeError", "KeyError", "AttributeError"}
       /\ (last.a1 # "parsed" \/ last.a2 # "success") => last.out = "None"
       /\ (last.a1 = "parsed" /\ last.a2 = "success") =>
             last.out = IF last.tag = "dict" /\ last.flag /\ last.val.k = "str"
                        THEN last.val.s ELSE "shared"

(* C14: remove_device(name) returns True exactly when an entry named name was
   held, then deletes only the first such entry and keeps the others in order,
   and otherwise returns False and leaves the list alone; add_device(name) then
   remove_device(name) restores a list that held no entry named name; and no
   entry named name remains after a True only if it was present once. *)
NamedAt(devs, name) == {i \in 1..Len(devs) : devs[i].name = name}

C14_RemoveFirstOnly ==
    [][/\ last'.op = "remove_device" =>
            /\ last'.out \in {"True", "False"}
            /\ last'.out = "True" <=> NamedAt(devices, last'.a1) # {}
            /\ last'.out = "False" => devices' = devices
            /\ last'.out = "True" =>
                  \E i \in NamedAt(devices, last'.a1) :
                     /\ \A m \in NamedAt(devices, last'.a1) : i <= m
                     /\ Len(devices') = Len(devices) - 1
                     /\ \A m \in 1..Len(devices') :
                           devices'[m] = IF m < i THEN devices[m] ELSE devices[m + 1]
            /\ (last'.out = "True" /\ NamedAt(devices', last'.a1) = {})
                  => Cardinality(NamedAt(devices, last'.a1)) = 1
       /\ \A n \in Serials :
             NamedAt(devices, n) = {} =>
                remove_device(add_device(devices, n, FALSE, NoVar).devs, n)
                   = [devs |-> devices, out |-> "True"]]_vars

C14_Witness ==
    /\ last.op = "remove_device" /\ last.out = "True"
    /\ Len(devices) = 1
    /\ devices[1].name = last.a1

(* C15: when set_device_variable_value or update_device_variable raises
   ValueError, the devices and variable containers are as before the call. *)
C15_ValueErrorLeavesState ==
    [][(/\ last'.op \in {"set_device_variable_value", "update_device_variable"}
        /\ last'.out = "ValueError")
         => (devices' = devices /\ variable' = variable)]_vars

(* ---- update_device_variable on devices holding several variables ---- *)
UpsertArgs ==
    DevVarArgs \cup {<<"$b", "hostname", IntV>>,
                     <<"$a", "pre-shared-key", DictV("str", "absent", "a")>>}

UpsertDeviceVariable ==
    \E serial \in Serials, a \in UpsertArgs :
       LET name == a[1]
           t == a[2]
           v == a[3] IN
       \E r \in {update_device_variable(devices, serial, name, t, v)} :
          /\ Len(r.devs) <= MaxDevices
          /\ \A i \in 1..Len(r.devs) : Len(r.devs[i].var.items) <= MaxUpsertVars
          /\ devices' = r.devs
          /\ last' = Call("update_device_variable", serial, name, t, v, FALSE, r.out)
          /\ stackEntry' = EntryAfter(stackEntry, "devices", r.devs,
                                     /\ t \in variable_types /\ HasDevice(devices, serial)
                                     /\ r.out = "None")
          /\ UNCHANGED <<variable, dgEntry, vIn, vOut, tmpl, templates>>

NextUpsert ==
    \/ AddDevice
    \/ AddDeviceWithVariables
    \/ DevicesSetter
    \/ UpsertDeviceVariable
    \/ RemoveDeviceVariable

SpecUpsert == Init /\ [][NextUpsert]_vars

MinOf(S) == CHOOSE i \in S : \A j \in S : i <= j

(* the shape of an update_device_variable step that stores `stored` as the
   value: the first device named a1 gets its first entry named a2 retyped, or
   one entry appended; nothing else changes *)
UpsertStep(stored) ==
    LET i == MinOf(NamedAt(devices, last'.a1))
        old == DevVars(devices[i])
        new == DevVars(devices'[i])
        J == {j \in 1..Len(old) : old[j].name = last'.a2}
    IN /\ Len(devices') = Len(devices)
       /\ \A m \in 1..Len(devices) : m # i => devices'[m] = devices[m]
       /\ devices'[i].name = devices[i].name
       /\ IF J # {}
          THEN /\ Len(new) = Len(old)
               /\ \A m \in 1..Len(old) :
                     new[m] = IF m = MinOf(J)
                              THEN [old[m] EXCEPT !.type = TypeOf(last'.tag, stored)]
                              ELSE old[m]
          ELSE new = Append(old, Entry(last'.a2, last'.tag, stored))

UpsertNoOp ==
    (last'.tag \notin variable_types \/ NamedAt(devices, last'.a1) = {}) => devices' = devices

(* C13 as stated: with an allowed type and a matching device the call stores
   {type: value}, replacing the first entry named name or appending one entry,
   and changes nothing else; with another type or no matching device it
   changes nothing. *)
C13_UpsertAsClaimed ==
    [][last'.op = "update_device_variable" =>
          /\ UpsertNoOp
          /\ (last'.tag \in variable_types /\ NamedAt(devices, last'.a1) # {})
                => UpsertStep(last'.val)]_vars

(* C13 amended: the same, except that a plain string given for a
   pre-shared-key is stored as {'value': string}, and a pre-shared-key value
   that is neither a string nor a dict raises ValueError and adds or retypes
   no entry. *)
C13_UpsertAmended ==
    [][last'.op = "update_device_variable" =>
          /\ UpsertNoOp
          /\ (last'.tag \in variable_types /\ NamedAt(devices, last'.a1) # {}) =>
                LET stored == IF last'.tag = "pre-shared-key" /\ last'.val.k = "str"
                              THEN DictV("absent", "str", last'.val.s) ELSE last'.val
                    i == MinOf(NamedAt(devices, last'.a1))
                IN IF last'.tag = "pre-shared-key" /\ stored.k # "dict"
                   THEN /\ last'.out = "ValueError"
                        /\ Len(devices') = Len(devices)
                        /\ \A m \in 1..Len(devices) : m # i => devices'[m] = devices[m]
                        /\ devices'[i].name = devices[i].name
                        /\ DevVars(devices'[i]) = DevVars(devices[i])
                   ELSE last'.out = "None" /\ UpsertStep(stored)]_vars

C13_Witness ==
    /\ last.op = "update_device_variable" /\ last.out = "None"
    /\ last.tag = "pre-shared-key"
    /\ \E i \in 1..Len(devices) :
          /\ devices[i].name = last.a1
          /\ \A m \in 1..(i - 1) : devices[m].name # last.a1
          /\ Len(DevVars(devices[i])) = 2
          /\ DevVars(devices[i])[1].name = last.a2
          /\ DevVars(devices[i])[2].name # last.a2

(* ---- TemplateStacks.templates and the entry that mirrors the fields ---- *)
Members == {"t1"}

(* values assigned to the templates property: not a dict, no 'member' key,
   'member' not a list, and two member lists *)
TemplatesInputs ==
    {[shape |-> sh, items |-> <<>>] : sh \in {"notdict", "missing", "notlist", "list"}}
    \cup {[shape |-> "list", items |-> <<"t1">>]}

TemplatesSetter ==
    \E value \in TemplatesInputs :
       \E ok \in {validate_templates_structure(value)} :
          /\ templates' = IF ok THEN value.items ELSE templates
          /\ last' = Call("templates.setter", "", value.shape, "", NoneV, FALSE,
                          IF ok THEN "None" ELSE "ValueError")
          /\ stackEntry' = IF ok
                          THEN property_setter(stackEntry, "templates", value.items) ELSE stackEntry
          /\ UNCHANGED <<variable, devices, dgEntry, vIn, vOut, tmpl>>

AddTemplateMember ==
    \E member \in Members :
       /\ Len(templates) < MaxMembers
       /\ templates' = Append(templates, member)
       /\ stackEntry' = EntryAfter(stackEntry, "templates", templates', TRUE)
       /\ last' = Call("add_template_member", member, "", "", NoneV, FALSE, "None")
       /\ UNCHANGED <<variable, devices, dgEntry, vIn, vOut, tmpl>>

(* every TemplateStacks operation that C16 names; add_device is taken without
   a variable block *)
NextMirror ==
    \/ TemplatesSetter
    \/ DevicesSetter
    \/ VariableSetter
    \/ AddDevice
    \/ RemoveDevice
    \/ UpdateVariable
    \/ UpdateDeviceVariable
    \/ SetDeviceVariableValue
    \/ RemoveDeviceVariable
    \/ AddTemplateMember
    \/ GetVariablesFromDevice

SpecMirror == Init /\ [][NextMirror]_vars

EntryMirrorsFields ==
    /\ stackEntry.templates.val = templates
    /\ stackEntry.devices.val = devices
    /\ stackEntry.variable.val = variable

SetterGivenInvalid ==
    \/ last'.op = "templates.setter"
          /\ ~validate_templates_structure([shape |-> last'.a2, items |-> <<>>])
    \/ last'.op = "devices.setter" /\ ~validate_devices_structure(last'.blk)
    \/ last'.op = "variable.setter" /\ ~validate_variable_structure(last'.blk)

(* C16: after construction and after every TemplateStacks operation
   entry['templates'], entry['devices'] and entry['variable'] equal the
   templates, devices and variable fields; a setter given an invalid structure
   raises ValueError and leaves the field and the entry as they were. *)
C16_EntryMirrorsFields ==
    /\ EntryMirrorsFields
    /\ [][/\ EntryMirrorsFields'
          /\ SetterGivenInvalid =>
                /\ last'.out = "ValueError"
                /\ UNCHANGED <<templates, devices, variable, stackEntry>>]_vars

(* get_variables_from_device rewrote variable['entry'] in place, on a stack
   whose templates were set, and the entry shows the new definitions *)
C16_Witness ==
    /\ last.op = "get_variables_from_device"
    /\ variable.shape = "list" /\ variable.items # <<>>
    /\ variable.items[1].type.kv[1].val = NoneV
    /\ templates # <<>>
    /\ stackEntry.variable.val = variable
    /\ stackEntry.templates.val = templates

====
